---------------------------- MODULE Spec2Model ----------------------------
(***************************************************************************)
(* GIASSpider (findthatcharity_import/spiders/schools_gias.py): the two    *)
(* cross-reference loaders, identifier synthesis, the location resolver    *)
(* and the chain of Scrapy callbacks that drives them.                     *)
(*                                                                         *)
(* Python strings are TLA+ strings (Len, \o, SubSeq as TLC gives them).    *)
(* A dict is a function; a key that is absent is outside its DOMAIN.       *)
(* An attribute of the spider exists iff its name is in attrs.             *)
(***************************************************************************)
EXTENDS Integers, Sequences, FiniteSets, TLC

VARIABLES
    attrs,      \* names of the attributes set on the spider (self.unirc, self.indschool)
    unirc,      \* self.unirc: URN -> company number
    indschool,  \* self.indschool: [char: URN -> charity no., comp: URN -> company no.]
    source,     \* self.source["distribution"][0]: downloadURL, accessURL
    ret,        \* outcome of the last callback: raised error and returned requests
    seen,       \* scheduler: URLs already enqueued (requests are built with dont_filter unset)
    inflight,   \* scheduler/downloader: requests whose response has not been delivered
    gens,       \* parse_csv generators: the rows each has still to yield
    items,      \* one outcome per row handed to parse_row, in order
    log,        \* callbacks whose exception the engine caught and logged
    calls,      \* how many times each callback was invoked
    completed,  \* callbacks that have returned without raising
    served,     \* what the three URLs serve during the run
    last_uni,   \* text of the last uni_lookup call
    last_ind,   \* text of the last independent_school_lookup call
    reloaded,   \* loaders that have been called again after a first call
    record,     \* the row handed to get_org_ids / get_locations
    org_ids,    \* outcome of get_org_ids(record)
    locations   \* outcome of get_locations(record)

spider  == <<attrs, unirc, indschool, source>>
engine  == <<seen, inflight, gens, items, log, calls, completed, served>>
harness == <<last_uni, last_ind, reloaded, record, org_ids, locations>>
vars    == <<attrs, unirc, indschool, source, ret, seen, inflight, gens, items,
             log, calls, completed, served, last_uni, last_ind, reloaded,
             record, org_ids, locations>>

---------------------------------------------------------------------------
(* Bounds of the model *)

MaxTableRows == 2   \* data rows in an auxiliary table text
MaxRows == 2        \* data rows in the establishment CSV of a crawl

---------------------------------------------------------------------------
(* Python values *)

\* None: distinct from every string the model draws.
None == "<None>"

EmptyDict == [k \in {} |-> ""]

\* d[k] = v
Put(d, k, v) == [x \in DOMAIN d \cup {k} |-> IF x = k THEN v ELSE d[x]]

\* record.get(k, default)
GetD(rec, k, default) == IF k \in DOMAIN rec THEN rec[k] ELSE default

\* record.get(k)
Get(rec, k) == GetD(rec, k, None)

\* truth value of a str-or-None
Truthy(v) == v # None /\ v # ""

\* str.rjust(width, "0")
RECURSIVE rjust(_, _)
rjust(s, width) == IF Len(s) >= width THEN s ELSE rjust("0" \o s, width)

\* s[0:n]
Slice0(s, n) == IF Len(s) <= n THEN s ELSE SubSeq(s, 1, n)

---------------------------------------------------------------------------
(* Class attributes and module constants *)

REGION_CONVERT ==
    ("A" :> "E12000001") @@ ("B" :> "E12000002") @@ ("D" :> "E12000003") @@
    ("E" :> "E12000004") @@ ("F" :> "E12000005") @@ ("G" :> "E12000006") @@
    ("H" :> "E12000007") @@ ("J" :> "E12000008") @@ ("K" :> "E12000009")

\* items.AREA_TYPES: 3-character code prefix -> area-type label
AREA_TYPES ==
    ("E12" :> "Region") @@ ("E09" :> "London Borough") @@ ("E05" :> "Ward") @@
    ("E14" :> "Parliamentary Constituency") @@ ("E02" :> "MSOA") @@
    ("E01" :> "LSOA")

start_urls == <<"https://get-information-schools.service.gov.uk/Downloads",
                "https://raw.githubusercontent.com/drkane/charity-lookups/master/university-royal-charters.csv",
                "https://raw.githubusercontent.com/drkane/charity-lookups/master/independent-schools-ew.csv">>

org_id_prefix == "GB-EDU"

id_field == "URN"

source_identifier == "gias"

location_fields == <<"GOR", "DistrictAdministrative", "AdministrativeWard",
                     "ParliamentaryConstituency", "UrbanRural", "MSOA", "LSOA">>

LA_WIDTH == 3

ESTAB_WIDTH == 4

---------------------------------------------------------------------------
(* Callback outcomes *)

Request(url, callback) == [url |-> url, callback |-> callback]

Returns(requests) == [raised |-> "", requests |-> requests]

Raises(error) == [raised |-> error, requests |-> <<>>]

NoOutcome == Returns(<<>>)

---------------------------------------------------------------------------
(* CrossReferenceLoader: uni_lookup, independent_school_lookup *)

\* A table text: its header columns and its data rows (a value per column
\* name; DictReader keeps the columns the header has).
DictReader(text) ==
    [i \in 1..Len(text.rows) |-> [k \in text.header |-> text.rows[i][k]]]

\* for row in csvreader: self.unirc[row["URN"]] = row["CompanyNumber"]
\* (the right-hand side is evaluated first; either lookup raises KeyError)
RECURSIVE uni_rows(_, _)
uni_rows(rows, d) ==
    IF rows = <<>> THEN [unirc |-> d, raised |-> ""]
    ELSE LET row == Head(rows) IN
         IF "CompanyNumber" \notin DOMAIN row \/ "URN" \notin DOMAIN row
         THEN [unirc |-> d, raised |-> "KeyError"]
         ELSE uni_rows(Tail(rows), Put(d, row["URN"], row["CompanyNumber"]))

\* where the loop of uni_lookup starts: self.unirc = {}
uni_start(old) == EmptyDict

uni_lookup(response) ==
    LET r == uni_rows(DictReader(response), uni_start(unirc)) IN
    /\ attrs' = attrs \cup {"unirc"}
    /\ unirc' = r.unirc
    /\ ret' = IF r.raised # "" THEN Raises(r.raised)
              ELSE Returns(<<Request(start_urls[3], "independent_school_lookup")>>)
    /\ UNCHANGED <<indschool, source>>

\* One row of independent_school_lookup's loop, in the order the code reads
\* the columns.
ind_row(row, d) ==
    IF "charity_number" \notin DOMAIN row THEN [ind |-> d, raised |-> "KeyError"]
    ELSE IF row["charity_number"] # "" /\ "URN" \notin DOMAIN row
    THEN [ind |-> d, raised |-> "KeyError"]
    ELSE LET d1 == IF row["charity_number"] # ""
                   THEN [d EXCEPT !.char = Put(@, row["URN"], row["charity_number"])]
                   ELSE d
         IN IF "company_number" \notin DOMAIN row THEN [ind |-> d1, raised |-> "KeyError"]
            ELSE IF row["company_number"] # "" /\ "URN" \notin DOMAIN row
            THEN [ind |-> d1, raised |-> "KeyError"]
            ELSE IF row["company_number"] # ""
            THEN [ind |-> [d1 EXCEPT !.comp = Put(@, row["URN"], row["company_number"])],
                  raised |-> ""]
            ELSE [ind |-> d1, raised |-> ""]

RECURSIVE ind_rows(_, _)
ind_rows(rows, d) ==
    IF rows = <<>> THEN [ind |-> d, raised |-> ""]
    ELSE LET r == ind_row(Head(rows), d) IN
         IF r.raised # "" THEN r ELSE ind_rows(Tail(rows), r.ind)

\* Variant: the maps are created once and never reset, so a second load
\* adds to what the first left.
ind_start_keep(old) == old

\* where the loop of independent_school_lookup starts:
\* self.indschool = {"char": {}, "comp": {}}
ind_start(old) == [char |-> EmptyDict, comp |-> EmptyDict]

independent_school_lookup(response) ==
    LET r == ind_rows(DictReader(response), ind_start(indschool)) IN
    /\ attrs' = attrs \cup {"indschool"}
    /\ indschool' = r.ind
    /\ ret' = IF r.raised # "" THEN Raises(r.raised)
              ELSE Returns(<<Request(start_urls[1], "find_csv")>>)
    /\ UNCHANGED <<unirc, source>>

---------------------------------------------------------------------------
(* RecordNormalizer: identifier synthesis *)

\* BaseScraper.get_org_id: the prefix joined to the row's URN; a row with no
\* URN column cannot be given a primary identifier.
get_org_id(rec) ==
    IF id_field \notin DOMAIN rec THEN [raised |-> "MalformedRecord", id |-> None]
    ELSE [raised |-> "", id |-> org_id_prefix \o "-" \o rec[id_field]]

\* if record.get("UKPRN"): "GB-UKPRN-{}"
ukprn_ids(rec) ==
    IF Truthy(Get(rec, "UKPRN")) THEN <<"GB-UKPRN-" \o rec["UKPRN"]>> ELSE <<>>

\* Variant: the two widths exchanged.
laestab_format_swapped(la, estab) ==
    "GB-LAESTAB-" \o rjust(la, ESTAB_WIDTH) \o "/" \o rjust(estab, LA_WIDTH)

\* "GB-LAESTAB-{}/{}".format(la.rjust(3, "0"), estab.rjust(4, "0"))
laestab_format(la, estab) ==
    "GB-LAESTAB-" \o rjust(la, LA_WIDTH) \o "/" \o rjust(estab, ESTAB_WIDTH)

\* if record.get("EstablishmentNumber") and record.get("LA (code)")
laestab_ids(rec) ==
    IF Truthy(Get(rec, "EstablishmentNumber")) /\ Truthy(Get(rec, "LA (code)"))
    THEN <<laestab_format(rec["LA (code)"], rec["EstablishmentNumber"])>>
    ELSE <<>>

\* if record.get("URN") in self.unirc: "GB-COH-{}"
uni_ids(rec) ==
    IF Get(rec, "URN") \in DOMAIN unirc
    THEN <<"GB-COH-" \o unirc[rec["URN"]]>> ELSE <<>>

\* if record.get("URN") in self.indschool["char"]: "GB-CHC-{}"
char_ids(rec) ==
    IF Get(rec, "URN") \in DOMAIN indschool.char
    THEN <<"GB-CHC-" \o indschool.char[rec["URN"]]>> ELSE <<>>

\* the branch the source keeps commented out:
\* if record.get("URN") in self.indschool["comp"]: "GB-COH-{}"
comp_ids(rec) ==
    IF Get(rec, "URN") \in DOMAIN indschool.comp
    THEN <<"GB-COH-" \o indschool.comp[rec["URN"]]>> ELSE <<>>

\* Variant: the commented-out company branch enabled.
get_org_ids_with_comp(rec) ==
    LET p == get_org_id(rec) IN
    IF p.raised # "" THEN [raised |-> p.raised, ids |-> <<>>]
    ELSE IF "unirc" \notin attrs \/ "indschool" \notin attrs
    THEN [raised |-> "AttributeError", ids |-> <<>>]
    ELSE [raised |-> "",
          ids |-> <<p.id>> \o ukprn_ids(rec) \o laestab_ids(rec)
                  \o uni_ids(rec) \o char_ids(rec) \o comp_ids(rec)]

\* The outcome of get_org_ids: the error it raises, or the list it returns.
\* Reading self.unirc or self.indschool before its loader has run raises
\* AttributeError.
get_org_ids(rec) ==
    LET p == get_org_id(rec) IN
    IF p.raised # "" THEN [raised |-> p.raised, ids |-> <<>>]
    ELSE IF "unirc" \notin attrs \/ "indschool" \notin attrs
    THEN [raised |-> "AttributeError", ids |-> <<>>]
    ELSE [raised |-> "",
          ids |-> <<p.id>> \o ukprn_ids(rec) \o laestab_ids(rec)
                  \o uni_ids(rec) \o char_ids(rec)]

---------------------------------------------------------------------------
(* LocationResolver: get_locations *)

\* Variant: every field group's code is translated, not GOR's alone.
region_code_all(f, code) == GetD(REGION_CONVERT, code, code)

\* if f == "GOR": code = REGION_CONVERT.get(code, code)
region_code(f, code) ==
    IF f = "GOR" THEN GetD(REGION_CONVERT, code, code) ELSE code

\* if code == "": code = name
code_or_name(code, name) == IF code = "" THEN name ELSE code

\* Variant: the whole code is looked up, not its first three characters.
geo_code_type_noslice(f, code) == GetD(AREA_TYPES, code, f)

\* AREA_TYPES.get(code[0:3], f)
geo_code_type(f, code) == GetD(AREA_TYPES, Slice0(code, 3), f)

\* Variant: a group is skipped when either column is empty.
skip_group_or(code, name) == name = "" \/ code = ""

\* if name == "" and code == "": continue
skip_group(code, name) == name = "" /\ code = ""

\* One pass of the loop body: the entries field group f adds (none or one).
location_entries(rec, f) ==
    LET code == GetD(rec, f \o " (code)", "")
        name == GetD(rec, f \o " (name)", "")
        geo  == code_or_name(region_code(f, code), name)
    IN IF skip_group(code, name) THEN <<>>
       ELSE <<[id |-> geo,
               name |-> Get(rec, f \o " (name)"),
               geoCode |-> geo,
               geoCodeType |-> geo_code_type(f, geo)]>>

RECURSIVE locations_from(_, _)
locations_from(rec, i) ==
    IF i > Len(location_fields) THEN <<>>
    ELSE location_entries(rec, location_fields[i]) \o locations_from(rec, i + 1)

get_locations(rec) == locations_from(rec, 1)

---------------------------------------------------------------------------
(* RecordNormalizer: parse_row *)

\* str.strip()
RECURSIVE lstrip(_)
lstrip(s) == IF Len(s) > 0 /\ Head(s) = " " THEN lstrip(Tail(s)) ELSE s

RECURSIVE rstrip(_)
rstrip(s) ==
    IF Len(s) > 0 /\ SubSeq(s, Len(s), Len(s)) = " "
    THEN rstrip(SubSeq(s, 1, Len(s) - 1)) ELSE s

\* BaseScraper.clean_fields: same keys in, trimmed values out
clean_fields(rec) == [k \in DOMAIN rec |-> rstrip(lstrip(rec[k]))]

\* The outcome of parse_row: the error raised while the Organisation's
\* arguments are evaluated (id first, orgIDs after location), or the item.
\* Of the fields copied with record.get, name stands for all; the
\* dateModified timestamp, postalCode and url are left out.
parse_row(rec0) ==
    LET rec == clean_fields(rec0)
        p   == get_org_id(rec)
        loc == get_locations(rec)
        ids == get_org_ids(rec)
    IN IF p.raised # "" THEN [raised |-> p.raised, item |-> <<>>]
       ELSE IF ids.raised # "" THEN [raised |-> ids.raised, item |-> <<>>]
       ELSE [raised |-> "",
             item |-> <<[id |-> p.id,
                         name |-> Get(rec, "EstablishmentName"),
                         organisationType |->
                             <<"Education",
                               Get(rec, "EstablishmentTypeGroup (name)"),
                               Get(rec, "TypeOfEstablishment (name)")>>,
                         location |-> loc,
                         active |-> Get(rec, "EstablishmentStatus (name)") # "Closed",
                         orgIDs |-> ids.ids,
                         sources |-> <<source_identifier>>]>>]

---------------------------------------------------------------------------
(* The crawl: Scrapy's engine delivering responses to the callbacks *)

Callbacks == {"start_requests", "uni_lookup", "independent_school_lookup",
              "find_csv", "parse_csv"}

\* The link gias_regex finds on the downloads page.
CSV_LINK == "http://ea-edubase-api-prod.azurewebsites.net/edubase/edubasealldata20190101.csv"

\* Variant: requests built with dont_filter=True, which the filter lets pass.
request_seen_off(req, urls) == FALSE

\* The scheduler's duplicate filter: every scrapy.Request of the spider is
\* built without dont_filter, so a URL enqueued before is dropped.
request_seen(req, urls) == req.url \in urls

\* The engine enqueues the requests a callback returned, in order.
RECURSIVE Schedule(_, _, _)
Schedule(requests, urls, queue) ==
    IF requests = <<>> THEN [seen |-> urls, inflight |-> queue]
    ELSE LET req == Head(requests) IN
         IF request_seen(req, urls) THEN Schedule(Tail(requests), urls, queue)
         ELSE Schedule(Tail(requests), urls \cup {req.url}, queue \cup {req})

\* What the engine does with the outcome that callback cb left in ret' for
\* request req: an exception is logged and the crawl goes on; returned
\* requests are enqueued.
EngineAfter(cb, req) ==
    LET s == Schedule(ret'.requests, seen, inflight \ {req}) IN
    /\ seen' = s.seen
    /\ inflight' = s.inflight
    /\ log' = IF ret'.raised # "" THEN Append(log, <<cb, ret'.raised>>) ELSE log
    /\ calls' = [calls EXCEPT ![cb] = @ + 1]
    /\ completed' = IF ret'.raised = "" THEN completed \cup {cb} ELSE completed

start_requests ==
    /\ calls["start_requests"] = 0
    /\ ret' = Returns(<<Request(start_urls[2], "uni_lookup"),
                        Request(start_urls[3], "independent_school_lookup")>>)
    /\ EngineAfter("start_requests", Request("", "start_requests"))
    /\ UNCHANGED <<spider, gens, items, served, harness>>

Deliver_uni_lookup ==
    \E req \in inflight :
        /\ req.callback = "uni_lookup"
        /\ uni_lookup(served.uni)
        /\ EngineAfter("uni_lookup", req)
        /\ UNCHANGED <<gens, items, served, harness>>

Deliver_independent_school_lookup ==
    \E req \in inflight :
        /\ req.callback = "independent_school_lookup"
        /\ independent_school_lookup(served.ind)
        /\ EngineAfter("independent_school_lookup", req)
        /\ UNCHANGED <<gens, items, served, harness>>

\* response.urljoin(link): the link, or the page's own URL when there is none
urljoin(base, link) == IF link = None THEN base ELSE link

\* link: what re_first(gias_regex) finds among the page's links, or None.
\* (self.source["modified"], a timestamp, is left out.)
find_csv(link) ==
    /\ source' = [downloadURL |-> link, accessURL |-> start_urls[1]]
    /\ ret' = Returns(<<Request(urljoin(start_urls[1], link), "parse_csv")>>)
    /\ UNCHANGED <<attrs, unirc, indschool>>

Deliver_find_csv ==
    \E req \in inflight :
        /\ req.callback = "find_csv"
        /\ find_csv(served.link)
        /\ EngineAfter("find_csv", req)
        /\ UNCHANGED <<gens, items, served, harness>>

\* BaseScraper.parse_csv: a generator that hands each row of the CSV to
\* parse_row; the engine draws from it row by row.
parse_csv(rows) ==
    /\ gens' = Append(gens, rows)
    /\ ret' = Returns(<<>>)
    /\ UNCHANGED spider

Deliver_parse_csv ==
    \E req \in inflight :
        /\ req.callback = "parse_csv"
        /\ parse_csv(served.csv)
        /\ EngineAfter("parse_csv", req)
        /\ UNCHANGED <<items, served, harness>>

\* The next row of a generator is normalized; an error of parse_row is
\* that row's alone.
Next_row ==
    \E g \in DOMAIN gens :
        /\ gens[g] # <<>>
        /\ LET out == parse_row(Head(gens[g])) IN
           items' = Append(items, [row |-> Head(gens[g]),
                                   raised |-> out.raised,
                                   item |-> out.item,
                                   attrs |-> attrs,
                                   completed |-> completed,
                                   tables |-> <<unirc, indschool>>])
        /\ gens' = [gens EXCEPT ![g] = Tail(@)]
        /\ UNCHANGED <<spider, ret, seen, inflight, log, calls, completed,
                       served, harness>>

---------------------------------------------------------------------------
(* Inputs *)

SeqsUpTo(S, n) == UNION {[1..k -> S] : k \in 0..n}

\* A row that may lack a column: Opt(k, None) has no key k.
Opt(k, v) == IF v = None THEN EmptyDict ELSE k :> v

UniColumns == {"URN", "CompanyNumber"}

UniRowVals ==
    { ("URN" :> "1") @@ ("CompanyNumber" :> "RC000001"),
      ("URN" :> "1") @@ ("CompanyNumber" :> "RC000002") }

UniTexts ==
    { [header |-> h, rows |-> r] :
        h \in {UniColumns, {"URN"}}, r \in SeqsUpTo(UniRowVals, MaxTableRows) }

IndColumns == {"URN", "charity_number", "company_number"}

IndRow(urn, char, comp) ==
    ("URN" :> urn) @@ ("charity_number" :> char) @@ ("company_number" :> comp)

IndRowVals ==
    { IndRow("1", "1000001", ""), IndRow("1", "1000002", "00000003"),
      IndRow("2", "", "00000002") }

IndTexts ==
    { [header |-> h, rows |-> r] :
        h \in {IndColumns, {"URN", "charity_number"}},
        r \in SeqsUpTo(IndRowVals, MaxTableRows) }

\* Rows for get_org_ids.
IdRows ==
    { Opt("URN", urn) @@ Opt("UKPRN", ukprn) @@ Opt("LA (code)", la)
        @@ Opt("EstablishmentNumber", estab) :
        urn \in {None, "", "1", "2", "3"},
        ukprn \in {None, "", "10012345"},
        la \in {None, "", "5", "201", "2011"},
        estab \in {None, "", "23", "3001", "30012"} }

\* The code and name columns of one location field group.
Cells(f, codes, names) ==
    { Opt(f \o " (code)", c) @@ Opt(f \o " (name)", n) : c \in codes, n \in names }

\* Rows for get_locations.
LocRows ==
    { c1 @@ c2 @@ c3 @@ c4 @@ c5 @@ c6 @@ c7 :
        c1 \in Cells("GOR", {None, "", "H", "Z", "E12000007"}, {None, "", "London"}),
        c2 \in Cells("DistrictAdministrative", {"", "E09000001", "H"}, {"", "City of London"}),
        c3 \in Cells("AdministrativeWard", {"", "E05000001"}, {"", "E12 Ward"}),
        c4 \in Cells("ParliamentaryConstituency", {"", "E14000639"}, {"", "Cities"}),
        c5 \in Cells("UrbanRural", {"", "A1"}, {"", "Urban"}),
        c6 \in Cells("MSOA", {"", "E02000001"}, {""}),
        c7 \in Cells("LSOA", {"", "E01000001"}, {None, ""}) }

\* Rows of the establishment CSV a crawl downloads.
CrawlRows ==
    { ("URN" :> "1") @@ ("EstablishmentName" :> " First School ")
        @@ ("UKPRN" :> "10012345") @@ ("LA (code)" :> "201")
        @@ ("EstablishmentNumber" :> "3001")
        @@ ("EstablishmentStatus (name)" :> "Open")
        @@ ("GOR (code)" :> "A") @@ ("GOR (name)" :> "North East"),
      ("URN" :> "2") @@ ("EstablishmentName" :> "Second School")
        @@ ("UKPRN" :> "") @@ ("LA (code)" :> "") @@ ("EstablishmentNumber" :> "")
        @@ ("EstablishmentStatus (name)" :> "Closed"),
      ("EstablishmentName" :> "No URN") @@ ("UKPRN" :> "10012346") }

\* What the two auxiliary URLs serve in a crawl.
ServedUniTexts ==
    { [header |-> UniColumns, rows |-> <<("URN" :> "1") @@ ("CompanyNumber" :> "RC000001")>>],
      [header |-> {"URN"}, rows |-> <<("URN" :> "1") @@ ("CompanyNumber" :> "RC000001")>>],
      [header |-> {"URN"}, rows |-> <<>>] }

ServedIndTexts ==
    { [header |-> IndColumns, rows |-> <<IndRow("1", "1000002", "00000003")>>],
      [header |-> {"URN", "charity_number"}, rows |-> <<IndRow("1", "1000002", "00000003")>>],
      [header |-> {"charity_number", "company_number"}, rows |-> <<IndRow("3", "", "")>>] }

EmptyText == [header |-> {}, rows |-> <<>>]

NotCalled == [called |-> FALSE, raised |-> "", val |-> <<>>]

---------------------------------------------------------------------------
(* Specifications *)

\* The spider as constructed: neither table attribute exists yet.
InitSpider ==
    /\ attrs = {}
    /\ unirc = EmptyDict
    /\ indschool = [char |-> EmptyDict, comp |-> EmptyDict]
    /\ source = [downloadURL |-> "", accessURL |-> ""]
    /\ ret = NoOutcome

InitEngine ==
    /\ seen = {}
    /\ inflight = {}
    /\ gens = <<>>
    /\ items = <<>>
    /\ log = <<>>
    /\ calls = [cb \in Callbacks |-> 0]
    /\ completed = {}

InitHarness ==
    /\ last_uni = EmptyText
    /\ last_ind = EmptyText
    /\ reloaded = {}
    /\ record = EmptyDict
    /\ org_ids = NotCalled
    /\ locations = NotCalled

NoServed == [uni |-> EmptyText, ind |-> EmptyText, link |-> None, csv |-> <<>>]

\* A crawl: scrapy runs the spider against what the three URLs serve.
Init ==
    /\ InitSpider
    /\ InitEngine
    /\ InitHarness
    /\ served \in [uni : ServedUniTexts, ind : ServedIndTexts,
                   link : {CSV_LINK, None}, csv : SeqsUpTo(CrawlRows, MaxRows)]

Next ==
    \/ start_requests
    \/ Deliver_uni_lookup
    \/ Deliver_independent_school_lookup
    \/ Deliver_find_csv
    \/ Deliver_parse_csv
    \/ Next_row

Spec == Init /\ [][Next]_vars

\* The loaders called directly, in any order, on any table texts.
Call_uni_lookup ==
    \E text \in UniTexts :
        /\ uni_lookup(text)
        /\ last_uni' = text
        /\ reloaded' = IF "unirc" \in attrs THEN reloaded \cup {"uni_lookup"} ELSE reloaded
        /\ UNCHANGED <<engine, last_ind, record, org_ids, locations>>

Call_independent_school_lookup ==
    \E text \in IndTexts :
        /\ independent_school_lookup(text)
        /\ last_ind' = text
        /\ reloaded' = IF "indschool" \in attrs
                       THEN reloaded \cup {"independent_school_lookup"} ELSE reloaded
        /\ UNCHANGED <<engine, last_uni, record, org_ids, locations>>

InitLoad == InitSpider /\ InitEngine /\ InitHarness /\ served = NoServed

NextLoad == Call_uni_lookup \/ Call_independent_school_lookup

SpecLoad == InitLoad /\ [][NextLoad]_vars

\* The tables the two loaders produce.
LoadedUni == { uni_rows(DictReader(t), uni_start(EmptyDict)).unirc : t \in UniTexts }

LoadedInd ==
    { ind_rows(DictReader(t), ind_start([char |-> EmptyDict, comp |-> EmptyDict])).ind :
        t \in IndTexts }

\* get_org_ids called on a row, against tables the two loaders produced.
Call_get_org_ids ==
    /\ ~org_ids.called
    /\ LET out == get_org_ids(record) IN
       org_ids' = [called |-> TRUE, raised |-> out.raised, val |-> out.ids]
    /\ UNCHANGED <<spider, ret, engine, last_uni, last_ind, reloaded, record, locations>>

InitIds ==
    /\ InitEngine
    /\ served = NoServed
    /\ last_uni = EmptyText
    /\ last_ind = EmptyText
    /\ reloaded = {}
    /\ unirc \in LoadedUni
    /\ indschool \in LoadedInd
    /\ attrs = {"unirc", "indschool"}
    /\ source = [downloadURL |-> "", accessURL |-> ""]
    /\ ret = NoOutcome
    /\ record \in IdRows
    /\ org_ids = NotCalled
    /\ locations = NotCalled

NextIds == Call_get_org_ids

SpecIds == InitIds /\ [][NextIds]_vars

\* get_locations called on a row.
Call_get_locations ==
    /\ ~locations.called
    /\ locations' = [called |-> TRUE, raised |-> "", val |-> get_locations(record)]
    /\ UNCHANGED <<spider, ret, engine, last_uni, last_ind, reloaded, record, org_ids>>

InitLoc ==
    /\ InitSpider
    /\ InitEngine
    /\ served = NoServed
    /\ last_uni = EmptyText
    /\ last_ind = EmptyText
    /\ reloaded = {}
    /\ record \in LocRows
    /\ org_ids = NotCalled
    /\ locations = NotCalled

NextLoc == Call_get_locations

SpecLoc == InitLoc /\ [][NextLoc]_vars

---------------------------------------------------------------------------
(* Properties *)

RECURSIVE Zeros(_)
Zeros(n) == IF n <= 0 THEN "" ELSE "0" \o Zeros(n - 1)

\* s left-padded with zeros to width w (never shortened)
ZeroPad(s, w) == Zeros(w - Len(s)) \o s

NonEmpty(rec, k) == k \in DOMAIN rec /\ rec[k] # ""

\* The identifier list the contract prescribes for a row that has a URN.
ExpectedOrgIds(rec) ==
    <<"GB-EDU-" \o rec["URN"]>>
    \o (IF NonEmpty(rec, "UKPRN") THEN <<"GB-UKPRN-" \o rec["UKPRN"]>> ELSE <<>>)
    \o (IF NonEmpty(rec, "LA (code)") /\ NonEmpty(rec, "EstablishmentNumber")
        THEN <<"GB-LAESTAB-" \o ZeroPad(rec["LA (code)"], 3) \o "/"
                 \o ZeroPad(rec["EstablishmentNumber"], 4)>>
        ELSE <<>>)
    \o (IF rec["URN"] \in DOMAIN unirc THEN <<"GB-COH-" \o unirc[rec["URN"]]>> ELSE <<>>)
    \o (IF rec["URN"] \in DOMAIN indschool.char
        THEN <<"GB-CHC-" \o indschool.char[rec["URN"]]>> ELSE <<>>)

\* C1: for every row with a URN and every pair of loaded tables, get_org_ids
\* returns exactly the primary identifier followed, in this order and each
\* at most once, by the GB-UKPRN, GB-LAESTAB, GB-COH (university map) and
\* GB-CHC (charity map) identifiers whose condition holds, and nothing from
\* the independent-school company map.
C1_OrgIdsExact ==
    (org_ids.called /\ "URN" \in DOMAIN record)
        => (org_ids.raised = "" /\ org_ids.val = ExpectedOrgIds(record))

\* All five identifiers, for a URN that is also a key of the company map.
C1_Witness ==
    /\ org_ids.called
    /\ Len(org_ids.val) = 5
    /\ "URN" \in DOMAIN record
    /\ record["URN"] \in DOMAIN indschool.comp

HasPrefix(s, pre) == Len(s) >= Len(pre) /\ SubSeq(s, 1, Len(pre)) = pre

\* the position of the first "/" of s
SlashAt(s) == CHOOSE i \in 1..Len(s) :
                 /\ SubSeq(s, i, i) = "/"
                 /\ \A j \in 1..(i - 1) : SubSeq(s, j, j) # "/"

\* p is s with only zeros put in front, up to width w
IsZeroPadded(p, s, w) ==
    /\ Len(p) = (IF Len(s) >= w THEN Len(s) ELSE w)
    /\ SubSeq(p, Len(p) - Len(s) + 1, Len(p)) = s
    /\ \A i \in 1..(Len(p) - Len(s)) : SubSeq(p, i, i) = "0"

\* C6: every GB-LAESTAB identifier get_org_ids emits is
\* GB-LAESTAB-<authority>/<establishment>, the authority being the LA code
\* left-padded with zeros to width 3 and the establishment the establishment
\* number left-padded with zeros to width 4.
C6_LaEstabPadding ==
    org_ids.called =>
        \A i \in DOMAIN org_ids.val :
            HasPrefix(org_ids.val[i], "GB-LAESTAB-") =>
                LET rest == SubSeq(org_ids.val[i], 12, Len(org_ids.val[i]))
                    k    == SlashAt(rest)
                IN /\ NonEmpty(record, "LA (code)")
                   /\ NonEmpty(record, "EstablishmentNumber")
                   /\ \E j \in 1..Len(rest) : SubSeq(rest, j, j) = "/"
                   /\ IsZeroPadded(SubSeq(rest, 1, k - 1), record["LA (code)"], 3)
                   /\ IsZeroPadded(SubSeq(rest, k + 1, Len(rest)),
                                   record["EstablishmentNumber"], 4)

\* LA code 5 and establishment number 23 give 005/0023.
C6_Witness ==
    /\ org_ids.called
    /\ NonEmpty(record, "LA (code)") /\ record["LA (code)"] = "5"
    /\ NonEmpty(record, "EstablishmentNumber") /\ record["EstablishmentNumber"] = "23"
    /\ \E i \in DOMAIN org_ids.val : org_ids.val[i] = "GB-LAESTAB-005/0023"


\* A sub-column of a row, empty when the row lacks it.
RawCode(rec, f) == IF (f \o " (code)") \in DOMAIN rec THEN rec[f \o " (code)"] ELSE ""

RawName(rec, f) == IF (f \o " (name)") \in DOMAIN rec THEN rec[f \o " (name)"] ELSE ""

\* The field groups whose code or name is non-empty, in field-group order.
PresentFields(rec) ==
    SelectSeq(location_fields, LAMBDA f : RawCode(rec, f) # "" \/ RawName(rec, f) # "")

\* C3: get_locations returns one entry for each location field group whose
\* code or name is non-empty, none for a group with both empty, in the
\* field-group order (the k-th entry is built from the k-th such group's
\* columns).
C3_OneEntryPerPresentGroup ==
    locations.called =>
        LET pf == PresentFields(record) IN
        /\ Len(locations.val) = Len(pf)
        /\ \A k \in 1..Len(pf) :
              /\ locations.val[k].name = Get(record, pf[k] \o " (name)")
              /\ locations.val[k].geoCode \in
                    {RawCode(record, pf[k]), RawName(record, pf[k]),
                     GetD(REGION_CONVERT, RawCode(record, pf[k]), "")}

\* Three entries: GOR has both columns empty and is skipped, the ward has a
\* name only, the MSOA a code only.
C3_Witness ==
    /\ locations.called
    /\ Len(locations.val) = 3
    /\ "GOR (code)" \in DOMAIN record /\ record["GOR (code)"] = ""
    /\ "GOR (name)" \in DOMAIN record /\ record["GOR (name)"] = ""
    /\ RawCode(record, "AdministrativeWard") = ""
    /\ RawName(record, "AdministrativeWard") # ""
    /\ RawCode(record, "MSOA") # ""

\* C4: every entry has id = geoCode, non-empty: the raw code, translated
\* through REGION_CONVERT for GOR alone (unchanged when not in the table),
\* or the name when there is no code.
C4_GeoCodeValue ==
    locations.called =>
        LET pf == PresentFields(record) IN
        \A k \in DOMAIN locations.val :
            k <= Len(pf) =>
                LET f == pf[k]
                    c == RawCode(record, f)
                    e == locations.val[k]
                IN /\ e.id = e.geoCode
                   /\ e.geoCode # ""
                   /\ e.geoCode =
                        IF c = "" THEN RawName(record, f)
                        ELSE IF f = "GOR" /\ c \in DOMAIN REGION_CONVERT
                        THEN REGION_CONVERT[c]
                        ELSE c

\* GOR code H is translated, the district's code H is not, and the ward,
\* which has no code, gets its name.
C4_Witness ==
    /\ locations.called
    /\ RawCode(record, "GOR") = "H"
    /\ RawCode(record, "DistrictAdministrative") = "H"
    /\ RawCode(record, "AdministrativeWard") = ""
    /\ RawName(record, "AdministrativeWard") = "E12 Ward"
    /\ Len(locations.val) >= 3
    /\ locations.val[1].geoCode = "E12000007"
    /\ locations.val[2].geoCode = "H"
    /\ locations.val[3].geoCode = "E12 Ward"

\* the first three characters of s
First3(s) == IF Len(s) < 3 THEN s ELSE SubSeq(s, 1, 3)

\* C5: an entry's geoCodeType is the AREA_TYPES label of the first three
\* characters of its code whenever that prefix is a key of the table, and
\* the field group's name only otherwise.
C5_TypeFromPrefixFirst ==
    locations.called =>
        LET pf == PresentFields(record) IN
        \A k \in DOMAIN locations.val :
            k <= Len(pf) =>
                LET e == locations.val[k] IN
                e.geoCodeType =
                    IF First3(e.geoCode) \in DOMAIN AREA_TYPES
                    THEN AREA_TYPES[First3(e.geoCode)]
                    ELSE pf[k]

\* GOR code H is typed by its translated prefix E12; UrbanRural code A1 has
\* no known prefix and is typed by its field group.
C5_Witness ==
    /\ locations.called
    /\ RawCode(record, "GOR") = "H"
    /\ RawCode(record, "UrbanRural") = "A1"
    /\ \E i, j \in DOMAIN locations.val :
          /\ locations.val[i].geoCode = "E12000007"
          /\ locations.val[i].geoCodeType = "Region"
          /\ locations.val[j].geoCode = "A1"
          /\ locations.val[j].geoCodeType = "UrbanRural"


\* The tables one load of a text builds on a spider that has loaded nothing.
FreshUni(text) == uni_rows(DictReader(text), EmptyDict).unirc

FreshInd(text) ==
    ind_rows(DictReader(text), [char |-> EmptyDict, comp |-> EmptyDict]).ind

\* C7: after any sequence of uni_lookup and independent_school_lookup calls
\* the university map is the one a single uni_lookup builds from the last
\* university text, and the charity and company maps are the ones a single
\* independent_school_lookup builds from the last independent-school text.
C7_LoadIdempotent ==
    /\ "unirc" \in attrs => unirc = FreshUni(last_uni)
    /\ "indschool" \in attrs => indschool = FreshInd(last_ind)

\* Both loaders have been called again, the last time on texts that leave
\* out what an earlier text could have put in.
C7_Witness ==
    /\ reloaded = {"uni_lookup", "independent_school_lookup"}
    /\ last_uni.header = UniColumns /\ Len(last_uni.rows) = 1
    /\ last_ind.header = IndColumns /\ last_ind.rows = <<IndRow("1", "1000001", "")>>
    /\ indschool.comp = EmptyDict
    /\ DOMAIN indschool.char = {"1"}

BothLoaded == {"unirc", "indschool"} \subseteq attrs

\* C8: once both tables have been loaded no step writes self.unirc or
\* self.indschool or calls a loader again, and every row normalized from
\* then on saw the tables as they still are.
C8_TablesReadOnlyOnceLoaded ==
    [][ /\ BothLoaded =>
            /\ unirc' = unirc
            /\ indschool' = indschool
            /\ attrs' = attrs
            /\ calls'["uni_lookup"] = calls["uni_lookup"]
            /\ calls'["independent_school_lookup"] = calls["independent_school_lookup"]
        /\ \A i \in DOMAIN items' :
              ({"unirc", "indschool"} \subseteq items'[i].attrs)
                  => items'[i].tables = <<unirc', indschool'>> ]_vars

\* uni_lookup has returned its request for the independent-school table,
\* both loaders are done, nothing is in flight, and two rows have been
\* normalized against the loaded tables.
C8_Witness ==
    /\ {"uni_lookup", "independent_school_lookup"} \subseteq completed
    /\ calls["independent_school_lookup"] = 1
    /\ inflight = {}
    /\ Len(items) = 2
    /\ \A i \in DOMAIN items : {"unirc", "indschool"} \subseteq items[i].attrs

\* C2: no row is normalized before both uni_lookup and
\* independent_school_lookup have completed, so self.unirc and
\* self.indschool both exist whenever a row is normalized.
C2_RowsOnlyAfterBothLoads ==
    \A i \in DOMAIN items :
        /\ {"uni_lookup", "independent_school_lookup"} \subseteq items[i].completed
        /\ {"unirc", "indschool"} \subseteq items[i].attrs

\* C9: when the load of an auxiliary table fails on a missing header column
\* (the loader raised KeyError) the run is over: no row of the primary
\* dataset is normalized into a record in that run.
C9_FailedLoadStopsTheRun ==
    (\E k \in DOMAIN log :
        /\ log[k][1] \in {"uni_lookup", "independent_school_lookup"}
        /\ (~(UniColumns \subseteq served.uni.header)
              \/ ~(IndColumns \subseteq served.ind.header)))
        => \A i \in DOMAIN items : items[i].item = <<>>

\* C10: a row with no URN raises and yields no record, and every row that
\* has a URN is normalized without error.
C10_OnlyRowsWithoutUrnFail ==
    \A i \in DOMAIN items :
        IF "URN" \in DOMAIN items[i].row
        THEN items[i].raised = "" /\ items[i].item # <<>>
        ELSE items[i].raised # "" /\ items[i].item = <<>>

===========================================================================
